---- MODULE Spec2Model ----
(***************************************************************************)
(* Model of the PyPRT generation orchestration layer                      *)
(* (src/src/client/wrap.cpp): the process-wide PRT context, the           *)
(* ModelGenerator constructor, generateModel / generateAnotherModel and   *)
(* the callback sink that collects the Engine's results.                  *)
(*                                                                         *)
(* Indices are 0-based in the C++ code and 1-based in TLA+ sequences:      *)
(* C++ v[ind] is v[ind + 1] here.  A GeneratedModel's initial shape index  *)
(* keeps the 0-based C++ value.                                            *)
(***************************************************************************)
EXTENDS Integers, Sequences, FiniteSets, TLC

\* ------------------------------------------------------------------------
\* Bounds of the model
\* ------------------------------------------------------------------------
MaxShapes == 3
MaxAttrSets == 2
MaxCallbacks == 2
MaxVertices == 7

\* ------------------------------------------------------------------------
\* Program constants
\* ------------------------------------------------------------------------
FILE_CGA_REPORT == "CGAReport.txt"
ENCODER_OPT_NAME == "name"
ENCODER_ID_CGA_REPORT == "com.esri.prt.core.CGAReportEncoder"
ENCODER_ID_CGA_PRINT == "com.esri.prt.core.CGAPrintEncoder"
ENCODER_ID_PYTHON == "com.esri.pyprt.PyEncoder"

DefaultRuleFile == "bin/rule.cgb"
DefaultStartRule == "default$init"
DefaultSeed == 666
DefaultShapeName == "InitialShape"

\* a null smart pointer (pcu::ResolveMapPtr and friends)
Null == <<"null", "">>

VARIABLES
    prtCtx,                  \* 0: the unique_ptr is empty; 1, 2: the PRTContext it owns
    firstRejected,           \* history: 0-based index of the first shape the constructor
                             \* rejected, -1 if it accepted them all
    shapeCount,              \* history: the number of shapes the constructor was given
    mValid,
    mInitialShapesBuilders,  \* one slot per initial shape
    mResolveMap,
    mEncoderBuilder,         \* TRUE once the lazily created builder exists
    mEncodersNames,
    mEncodersOptionsPtr,
    mRuleFile, mStartRule, mSeed, mShapeName,
    terminated,              \* the process died in undefined behaviour
    last,                    \* the last call on the orchestrator: arguments and what it did
    hist,                    \* history: what earlier calls achieved
    prtHist,                 \* history: has initialize_prt been called with no shutdown_prt
                             \* after it (live); what is_prt_initialized returned if it was
                             \* the last of the three to be called (answer)
    initialShape,            \* the InitialShape constructed last, and by which constructor
    collector,               \* a PyCallbacks object the Engine is writing to
    callbackLog              \* history: the callbacks made on collector, in order

\* the orchestrator and the Engine context
orchestrator == <<prtCtx, firstRejected, shapeCount, mValid, mInitialShapesBuilders, mResolveMap,
                  mEncoderBuilder, mEncodersNames, mEncodersOptionsPtr,
                  mRuleFile, mStartRule, mSeed, mShapeName, terminated, last, hist,
                  prtHist>>

\* the objects that live outside the orchestrator
objects == <<initialShape, collector, callbackLog>>

vars == <<prtCtx, firstRejected, shapeCount, mValid, mInitialShapesBuilders, mResolveMap,
          mEncoderBuilder, mEncodersNames, mEncodersOptionsPtr,
          mRuleFile, mStartRule, mSeed, mShapeName, terminated, last, hist,
          prtHist, initialShape, collector, callbackLog>>

\* ------------------------------------------------------------------------
\* Generic helpers
\* ------------------------------------------------------------------------
SeqsUpTo(S, n) == UNION {[1..k -> S] : k \in 0..n}

\* ------------------------------------------------------------------------
\* The three constructors of InitialShape.
\* ------------------------------------------------------------------------
\* InitialShape(vert) with the index count rounded up
InitialShapeRoundingUp(vert) ==
    LET n == (Len(vert) + 2) \div 3
    IN  [mVertices |-> vert, mIndices |-> [i \in 1..n |-> i - 1], mFaceCounts |-> <<n>>,
         mPath |-> "", mPathFlag |-> FALSE]

\* InitialShape(vert): resize to vert.size() / 3, std::iota from 0, one face count
InitialShapeFromVertices(vert) ==
    LET n == Len(vert) \div 3
    IN  [mVertices |-> vert, mIndices |-> [i \in 1..n |-> i - 1], mFaceCounts |-> <<n>>,
         mPath |-> "", mPathFlag |-> FALSE]

\* InitialShape(vert, ind, faceCnt)
InitialShapeFromGeometry(vert, ind, faceCnt) ==
    [mVertices |-> vert, mIndices |-> ind, mFaceCounts |-> faceCnt,
     mPath |-> "", mPathFlag |-> FALSE]

\* InitialShape(initShapePath)
InitialShapeFromPath(initShapePath) ==
    [mVertices |-> <<>>, mIndices |-> <<>>, mFaceCounts |-> <<>>,
     mPath |-> initShapePath, mPathFlag |-> TRUE]

\* no InitialShape constructed yet
NoShape == [ctor |-> "none", obj |-> InitialShapeFromPath("")]

\* ------------------------------------------------------------------------
\* InitialShape values handed to the constructor.  The constructor branches
\* on getPathFlag(), on toFileURI(path).empty() and on the status the
\* Engine returns for resolveGeometry / setGeometry.
\* ------------------------------------------------------------------------
InitialShapeInputs ==
    { [mPathFlag |-> FALSE, uriEmpty |-> FALSE, engineOK |-> TRUE],
      [mPathFlag |-> FALSE, uriEmpty |-> FALSE, engineOK |-> FALSE],
      [mPathFlag |-> TRUE,  uriEmpty |-> TRUE,  engineOK |-> FALSE],
      [mPathFlag |-> TRUE,  uriEmpty |-> FALSE, engineOK |-> FALSE],
      [mPathFlag |-> TRUE,  uriEmpty |-> FALSE, engineOK |-> TRUE] }

\* a fresh prt::InitialShapeBuilder, no attributes set yet
NewBuilder ==
    [isb |-> TRUE, attrSet |-> FALSE, ruleFile |-> "", startRule |-> "", seed |-> 0,
     shapeName |-> "", attrs |-> "none", resolveMap |-> Null]

\* an empty slot of mInitialShapesBuilders (a null InitialShapeBuilderPtr)
EmptySlot == [NewBuilder EXCEPT !.isb = FALSE]

\* what the loop body of the constructor meets for one shape
ShapeStatus(shape) ==
    IF shape.mPathFlag
    THEN IF ~shape.uriEmpty
         THEN IF shape.engineOK THEN "ok" ELSE "resolveGeometry"
         ELSE "emptyPath"
    ELSE IF shape.engineOK THEN "ok" ELSE "setGeometry"

\* 0-based index of the first shape that is not accepted, -1 if there is none
FirstRejected(myGeo) ==
    LET bad == {i \in 1..Len(myGeo) : ShapeStatus(myGeo[i]) # "ok"}
    IN  IF bad = {} THEN -1 ELSE (CHOOSE i \in bad : \A j \in bad : i <= j) - 1

\* the loop with a validity flag that is decided by each shape anew
RECURSIVE CtorLoopNotSticky(_, _, _)
CtorLoopNotSticky(myGeo, ind, st) ==
    IF ind > Len(myGeo) THEN st
    ELSE LET valid == ShapeStatus(myGeo[ind]) = "ok"
         IN  CtorLoopNotSticky(myGeo, ind + 1,
                               [valid |-> valid,
                                builders |-> IF valid
                                             THEN [st.builders EXCEPT ![ind] = NewBuilder]
                                             ELSE st.builders])

\* the constructor's loop from index ind on; st = [valid, builders]
RECURSIVE CtorLoop(_, _, _)
CtorLoop(myGeo, ind, st) ==
    IF ind > Len(myGeo) THEN st
    ELSE LET valid == st.valid /\ ShapeStatus(myGeo[ind]) = "ok"
         IN  CtorLoop(myGeo, ind + 1,
                      [valid |-> valid,
                       builders |-> IF valid
                                    THEN [st.builders EXCEPT ![ind] = NewBuilder]
                                    ELSE st.builders])

\* the constructor with the validity flag decided by each shape anew
ConstructNotSticky(myGeo) ==
    CtorLoopNotSticky(myGeo, 1,
                      [valid |-> TRUE, builders |-> [i \in 1..Len(myGeo) |-> EmptySlot]])

\* the constructor storing the builder of every shape, accepted or not
ConstructStoringEveryBuilder(myGeo) ==
    [valid |-> CtorLoop(myGeo, 1, [valid |-> TRUE,
                                   builders |-> [i \in 1..Len(myGeo) |-> EmptySlot]]).valid,
     builders |-> [i \in 1..Len(myGeo) |-> NewBuilder]]

\* ModelGenerator::ModelGenerator
Construct(myGeo) ==
    CtorLoop(myGeo, 1, [valid |-> TRUE, builders |-> [i \in 1..Len(myGeo) |-> EmptySlot]])

\* ------------------------------------------------------------------------
\* Python dictionaries of shape attributes (py::dict) and their conversion.
\* py[k] is the Python type of the value under key k, "absent" if the
\* dictionary lacks the key.
\* ------------------------------------------------------------------------
MainKeys == {"ruleFile", "startRule", "seed", "shapeName"}

EmptyDict ==
    [id |-> "empty",
     py |-> [k \in MainKeys |-> "absent"],
     str |-> [ruleFile |-> "", startRule |-> "", shapeName |-> ""],
     int |-> [seed |-> 0]]

FullDict ==
    [id |-> "full",
     py |-> [k \in MainKeys |-> IF k = "seed" THEN "int" ELSE "str"],
     str |-> [ruleFile |-> "bin/extrusion_rule.cgb", startRule |-> "Default$Footprint",
              shapeName |-> "myShape"],
     int |-> [seed |-> 555]]

\* a rule file only, and a seed given as a Python float
FloatSeedDict ==
    [id |-> "floatSeed",
     py |-> [k \in MainKeys |-> CASE k = "ruleFile" -> "str"
                                  [] k = "seed" -> "float"
                                  [] OTHER -> "absent"],
     str |-> [ruleFile |-> "bin/other.cgb", startRule |-> "", shapeName |-> ""],
     int |-> [seed |-> 0]]

ShapeAttributeDicts == {EmptyDict, FullDict, FloatSeedDict}

\* the prt::AttributeMap type of a converted Python value
PrimitiveType(pytype) ==
    CASE pytype = "str" -> "PT_STRING"
      [] pytype = "int" -> "PT_INT"
      [] pytype = "float" -> "PT_FLOAT"
      [] pytype = "bool" -> "PT_BOOL"
      [] OTHER -> "PT_UNDEFINED"

\* pcu::createAttributeMapFromPythonDict: the native attribute map of a dict
createAttributeMapFromPythonDict(dict) ==
    [src |-> dict.id,
     keys |-> {k \in MainKeys : dict.py[k] # "absent"},
     type |-> [k \in MainKeys |-> PrimitiveType(dict.py[k])],
     str |-> dict.str,
     int |-> dict.int]

hasKey(map, k) == k \in map.keys
getType(map, k) == map.type[k]

\* extractMainShapeAttributes: the four in/out parameters after the call,
\* and the converted attribute map
extractMainShapeAttributes(shapeAttr, ruleFile, startRule, seed, shapeName) ==
    LET convertShapeAttr == createAttributeMapFromPythonDict(shapeAttr) IN
    [ruleFile |-> IF hasKey(convertShapeAttr, "ruleFile")
                     /\ getType(convertShapeAttr, "ruleFile") = "PT_STRING"
                  THEN convertShapeAttr.str.ruleFile ELSE ruleFile,
     startRule |-> IF hasKey(convertShapeAttr, "startRule")
                      /\ getType(convertShapeAttr, "startRule") = "PT_STRING"
                   THEN convertShapeAttr.str.startRule ELSE startRule,
     seed |-> IF hasKey(convertShapeAttr, "seed")
                 /\ getType(convertShapeAttr, "seed") = "PT_INT"
              THEN convertShapeAttr.int.seed ELSE seed,
     shapeName |-> IF hasKey(convertShapeAttr, "shapeName")
                      /\ getType(convertShapeAttr, "shapeName") = "PT_STRING"
                   THEN convertShapeAttr.str.shapeName ELSE shapeName,
     convertShapeAttr |-> convertShapeAttr]

\* ------------------------------------------------------------------------
\* The orchestrator's fields as one record, so that the steps of
\* generateModel can be composed.
\* ------------------------------------------------------------------------
Self ==
    [mValid |-> mValid,
     mInitialShapesBuilders |-> mInitialShapesBuilders,
     mResolveMap |-> mResolveMap,
     mEncoderBuilder |-> mEncoderBuilder,
     mEncodersNames |-> mEncodersNames,
     mEncodersOptionsPtr |-> mEncodersOptionsPtr,
     mRuleFile |-> mRuleFile,
     mStartRule |-> mStartRule,
     mSeed |-> mSeed,
     mShapeName |-> mShapeName]

\* the dictionary used for the shape at 0-based index ind
\* (setAndCreateInitialShape, first three lines of the loop body)
ShapeAttrFirstOnly(shapesAttr, ind) == shapesAttr[1]

ShapeAttrFor(shapesAttr, ind) ==
    IF Len(shapesAttr) > ind THEN shapesAttr[ind + 1] ELSE shapesAttr[1]

\* the builder of one shape after setAttributes(...) in setAndCreateInitialShape
BuilderWithAttributes(o, builder, shapeAttr) ==
    LET x == extractMainShapeAttributes(shapeAttr, o.mRuleFile, o.mStartRule,
                                        o.mSeed, o.mShapeName)
    IN  [builder EXCEPT !.attrSet = TRUE,
                        !.ruleFile = x.ruleFile,
                        !.startRule = x.startRule,
                        !.seed = x.seed,
                        !.shapeName = x.shapeName,
                        !.attrs = x.convertShapeAttr.src,
                        !.resolveMap = o.mResolveMap]

\* the loop with the extracted values written back to the members
RECURSIVE SetAndCreateLoopPersisting(_, _, _)
SetAndCreateLoopPersisting(o, shapesAttr, pos) ==
    IF pos > Len(o.mInitialShapesBuilders) THEN o
    ELSE LET shapeAttr == ShapeAttrFor(shapesAttr, pos - 1)
             b == BuilderWithAttributes(o, o.mInitialShapesBuilders[pos], shapeAttr)
         IN  SetAndCreateLoopPersisting(
                 [o EXCEPT !.mInitialShapesBuilders[pos] = b,
                           !.mRuleFile = b.ruleFile, !.mStartRule = b.startRule,
                           !.mSeed = b.seed, !.mShapeName = b.shapeName],
                 shapesAttr, pos + 1)

\* the loop of setAndCreateInitialShape from (1-based) position pos on
RECURSIVE SetAndCreateLoop(_, _, _)
SetAndCreateLoop(o, shapesAttr, pos) ==
    IF pos > Len(o.mInitialShapesBuilders) THEN o
    ELSE LET shapeAttr == ShapeAttrFor(shapesAttr, pos - 1)
             b == BuilderWithAttributes(o, o.mInitialShapesBuilders[pos], shapeAttr)
         IN  SetAndCreateLoop([o EXCEPT !.mInitialShapesBuilders[pos] = b],
                              shapesAttr, pos + 1)

\* setAndCreateInitialShape with the extracted values written back to the members
setAndCreateInitialShapePersisting(o, shapesAttr) ==
    SetAndCreateLoopPersisting(o, shapesAttr, 1)

\* ModelGenerator::setAndCreateInitialShape
setAndCreateInitialShape(o, shapesAttr) == SetAndCreateLoop(o, shapesAttr, 1)

\* ------------------------------------------------------------------------
\* Encoders.  An encoder option dictionary is a set of <<key, value>>
\* pairs; a validated option map remembers the encoder it was validated for.
\* ------------------------------------------------------------------------
ENCODER_ID_OBJ == "com.esri.prt.codecs.OBJEncoder"

NoOptions == {}
EncoderOptionDicts == {NoOptions, {<<"outputPath", "/tmp/out">>}, {<<"outputPath", "/no/such/dir">>}}

\* the directories for which std::filesystem::is_directory && exists holds
ExistingDirectories == {"/tmp/out"}

createValidatedOptions(encName, encOptions) == [encoder |-> encName, options |-> encOptions]

\* initializeEncoderData without the two clear() calls
initializeEncoderDataAppending(o, encName, encOpt) ==
    LET first == [o EXCEPT !.mEncodersNames = @ \o <<encName>>,
                           !.mEncodersOptionsPtr =
                               @ \o <<createValidatedOptions(encName, encOpt)>>]
    IN  IF encName # ENCODER_ID_PYTHON
        THEN [first EXCEPT
                !.mEncodersNames = @ \o <<ENCODER_ID_CGA_REPORT, ENCODER_ID_CGA_PRINT>>,
                !.mEncodersOptionsPtr = @
                    \o <<createValidatedOptions(ENCODER_ID_CGA_REPORT,
                                                {<<ENCODER_OPT_NAME, FILE_CGA_REPORT>>}),
                         createValidatedOptions(ENCODER_ID_CGA_PRINT, {})>>]
        ELSE first

\* ModelGenerator::initializeEncoderData
initializeEncoderData(o, encName, encOpt) ==
    LET first == [o EXCEPT !.mEncodersNames = <<encName>>,
                           !.mEncodersOptionsPtr = <<createValidatedOptions(encName, encOpt)>>]
        reportOptions == {<<ENCODER_OPT_NAME, FILE_CGA_REPORT>>}
        printOptions == {}
    IN  IF encName # ENCODER_ID_PYTHON
        THEN [first EXCEPT
                !.mEncodersNames = first.mEncodersNames
                    \o <<ENCODER_ID_CGA_REPORT, ENCODER_ID_CGA_PRINT>>,
                !.mEncodersOptionsPtr = first.mEncodersOptionsPtr
                    \o <<createValidatedOptions(ENCODER_ID_CGA_REPORT, reportOptions),
                         createValidatedOptions(ENCODER_ID_CGA_PRINT, printOptions)>>]
        ELSE first

\* ModelGenerator::getRawEncoderDataPointers, for a non-empty mEncodersNames
getRawEncoderDataPointers(o) ==
    IF o.mEncodersNames[1] = ENCODER_ID_PYTHON
    THEN [allEnc |-> <<o.mEncodersNames[1]>>,
          allEncOpt |-> <<o.mEncodersOptionsPtr[1]>>]
    ELSE [allEnc |-> <<o.mEncodersNames[1], o.mEncodersNames[2], o.mEncodersNames[3]>>,
          allEncOpt |-> <<o.mEncodersOptionsPtr[1], o.mEncodersOptionsPtr[2],
                          o.mEncodersOptionsPtr[3]>>]

\* ------------------------------------------------------------------------
\* The callback sink (PyCallbacks, declared by IPyCallbacks): one partial
\* result per initial shape index, 0-based.
\* ------------------------------------------------------------------------
EmptyMap == [k \in {} |-> 0]

NewModel ==
    [seen |-> FALSE, vertices |-> <<>>, indices |-> <<>>, faces |-> <<>>,
     report |-> [flt |-> EmptyMap, str |-> EmptyMap, bool |-> EmptyMap]]

\* PyCallbacks(n): a collector sized to n initial shapes
PyCallbacks(n) == [i \in 0..(n - 1) |-> NewModel]

\* no collector exists (a null PyCallbacksPtr)
NoCollector == [i \in {-1} |-> NewModel]

RECURSIVE Flatten(_)
Flatten(groups) ==
    IF groups = <<>> THEN <<>> ELSE Head(groups) \o Flatten(Tail(groups))

FaceCounts(groups) == [i \in 1..Len(groups) |-> Len(groups[i])]

\* a merge that keeps only the keys of the latest callback
MergeMapReplacing(old, new) == new

\* later values win, earlier keys stay
MergeMap(old, new) ==
    [k \in (DOMAIN old) \cup (DOMAIN new) |-> IF k \in DOMAIN new THEN new[k] ELSE old[k]]

\* addGeometry appending to the geometry stored before
addGeometryAccumulating(foc, initialShapeIndex, verticesCoord, facesCoord) ==
    [foc EXCEPT ![initialShapeIndex].vertices = @ \o verticesCoord,
                ![initialShapeIndex].indices = @ \o Flatten(facesCoord),
                ![initialShapeIndex].faces = @ \o FaceCounts(facesCoord)]

addGeometry(foc, initialShapeIndex, verticesCoord, facesCoord) ==
    [foc EXCEPT ![initialShapeIndex].vertices = verticesCoord,
                ![initialShapeIndex].indices = Flatten(facesCoord),
                ![initialShapeIndex].faces = FaceCounts(facesCoord)]

addReports(foc, initialShapeIndex, CGAfloatreport, CGAstringreport, CGAboolreport) ==
    [foc EXCEPT ![initialShapeIndex].report =
        [flt |-> MergeMap(@.flt, CGAfloatreport),
         str |-> MergeMap(@.str, CGAstringreport),
         bool |-> MergeMap(@.bool, CGAboolreport)]]

addIndex(foc, initialShapeIndex) == [foc EXCEPT ![initialShapeIndex].seen = TRUE]

\* one callback of the Engine
ApplyCallback(foc, ev) ==
    CASE ev.cb = "addGeometry" -> addGeometry(foc, ev.idx, ev.vertices, ev.faces)
      [] ev.cb = "addReports" -> addReports(foc, ev.idx, ev.flt, ev.str, ev.bool)
      [] OTHER -> addIndex(foc, ev.idx)

RECURSIVE ApplyCallbacks(_, _)
ApplyCallbacks(foc, evs) ==
    IF evs = <<>> THEN foc ELSE ApplyCallbacks(ApplyCallback(foc, Head(evs)), Tail(evs))

\* the callbacks the Engine may make during one prt::generate over n shapes
GeometrySamples == { [vertices |-> <<0, 0, 0, 0, 0, 1, 1, 0, 1>>, faces |-> << <<0, 1, 2>> >>] }

ReportSamples ==
    { [flt |-> ("area" :> 2), str |-> ("kind" :> "roof"), bool |-> EmptyMap] }

EngineCallbacks(n) ==
    {[cb |-> "addGeometry", idx |-> i, vertices |-> g.vertices, faces |-> g.faces,
      flt |-> EmptyMap, str |-> EmptyMap, bool |-> EmptyMap] :
        i \in 0..(n - 1), g \in GeometrySamples}
    \cup
    {[cb |-> "addReports", idx |-> i, vertices |-> <<>>, faces |-> <<>>,
      flt |-> r.flt, str |-> r.str, bool |-> r.bool] :
        i \in 0..(n - 1), r \in ReportSamples}
    \cup
    {[cb |-> "addIndex", idx |-> i, vertices |-> <<>>, faces |-> <<>>,
      flt |-> EmptyMap, str |-> EmptyMap, bool |-> EmptyMap] : i \in 0..(n - 1)}

GeneratedModel(initShapeIdx, vert, indices, face, rep) ==
    [mInitialShapeIndex |-> initShapeIdx, mVertices |-> vert, mIndices |-> indices,
     mFaces |-> face, mReport |-> rep]

\* the drain loop of generateModel: one GeneratedModel per builder slot, idx ascending,
\* a slot the Engine never reported against included
RECURSIVE DrainLoop(_, _, _, _)
DrainLoop(n, foc, idx, newGeneratedGeo) ==
    IF idx >= n THEN newGeneratedGeo
    ELSE DrainLoop(n, foc, idx + 1,
                   Append(newGeneratedGeo,
                          GeneratedModel(idx, foc[idx].vertices, foc[idx].indices,
                                         foc[idx].faces, foc[idx].report)))

DrainDescending(n, foc) ==
    [k \in 1..n |-> GeneratedModel(n - k, foc[n - k].vertices, foc[n - k].indices,
                                   foc[n - k].faces, foc[n - k].report)]

Drain(n, foc) == DrainLoop(n, foc, 0, <<>>)

\* ------------------------------------------------------------------------
\* What the Engine does in one call: the result of prt::createResolveMap,
\* the result of prt::generate and the callbacks made during it.
\* ------------------------------------------------------------------------
EngineOutcomes == {"ok", "fail", "throw"}

\* what operator[] on an empty std::vector does to the call: the process dies
\* (invalid read, library assertion), or the fault is delivered as a structured
\* exception that catch (...) receives
UndefinedOutcomes == {"terminate", "caught"}

RulePackagePaths == {"", "extrusion_rule.rpk"}

\* the resolve map prt::createResolveMap builds from a rule package
ResolveMapOf(rulePackagePath) == <<"resolveMap", rulePackagePath>>

\* ------------------------------------------------------------------------
\* generateModel.  A call is described by a record: the orchestrator after
\* the call (o) and what the call did.
\*   outcome: "returned", "threw" (an exception is propagating),
\*            "undefined" (the call ran into undefined behaviour)
\* ------------------------------------------------------------------------
CallBase(o) ==
    [o |-> o, outcome |-> "returned", error |-> "none", result |-> <<>>,
     resolveAttempted |-> FALSE, resolved |-> FALSE, attrStep |-> FALSE,
     engineCalls |-> 0, handedEnc |-> <<>>, handedOpt |-> <<>>, genStat |-> "notCalled",
     lateFirst |-> FALSE]

\* prt::createResolveMap: the pointer returned and the status written, or an exception
createResolveMap(rulePackagePath, behaviour) ==
    CASE behaviour = "ok" ->
            [threw |-> FALSE, ptr |-> ResolveMapOf(rulePackagePath), status |-> "STATUS_OK"]
      [] behaviour = "fail" ->
            [threw |-> FALSE, ptr |-> Null, status |-> "STATUS_FILE_NOT_FOUND"]
      [] OTHER ->
            [threw |-> TRUE, ptr |-> Null, status |-> "STATUS_UNSPECIFIED_ERROR"]

\* the orchestrator after `mResolveMap.reset(prt::createResolveMap(...))` in its
\* inner try/catch; an exception leaves the member alone
ResetResolveMap(o, created) ==
    IF created.threw THEN o ELSE [o EXCEPT !.mResolveMap = created.ptr]

HasOutputPath(encOpt) == \E kv \in encOpt : kv[1] = "outputPath"
OutputPathOf(encOpt) == (CHOOSE kv \in encOpt : kv[1] = "outputPath")[2]

\* a callback for a later shape arrived before a callback for an earlier one
LateFirst(cbs) == \E i, j \in DOMAIN cbs : i < j /\ cbs[i].idx > cbs[j].idx

\* the Python-encoder branch calling prt::generate again after a failure status
PythonBranchRetrying(c, raw, env) ==
    LET n == Len(c.o.mInitialShapesBuilders)
        foc == ApplyCallbacks(PyCallbacks(n), env.cbs)
        invoked == [c EXCEPT !.engineCalls = 1, !.handedEnc = raw.allEnc,
                             !.handedOpt = raw.allEncOpt]
    IN  CASE env.gen = "throw" -> [invoked EXCEPT !.outcome = "threw", !.genStat = "exception"]
          [] env.gen = "fail" ->
                [invoked EXCEPT !.engineCalls = 2, !.error = "generate",
                                !.genStat = "STATUS_GENERATE_ERROR"]
          [] OTHER -> [invoked EXCEPT !.result = Drain(n, foc), !.genStat = "STATUS_OK",
                                      !.lateFirst = LateFirst(env.cbs)]

\* the Python-encoder branch: generate into a fresh PyCallbacks and drain it
PythonBranch(c, raw, env) ==
    LET n == Len(c.o.mInitialShapesBuilders)
        foc == ApplyCallbacks(PyCallbacks(n), env.cbs)
        invoked == [c EXCEPT !.engineCalls = 1, !.handedEnc = raw.allEnc,
                             !.handedOpt = raw.allEncOpt]
    IN  CASE env.gen = "throw" -> [invoked EXCEPT !.outcome = "threw", !.genStat = "exception"]
          [] env.gen = "fail" ->
                [invoked EXCEPT !.error = "generate", !.genStat = "STATUS_GENERATE_ERROR"]
          [] OTHER -> [invoked EXCEPT !.result = Drain(n, foc), !.genStat = "STATUS_OK",
                                      !.lateFirst = LateFirst(env.cbs)]

\* a file-encoder branch that returns one model per shape on STATUS_OK
FileBranchReturningModels(c, raw, geometryEncoderOptions, env) ==
    IF ~HasOutputPath(geometryEncoderOptions)
    THEN [c EXCEPT !.outcome = "threw"]
    ELSE IF OutputPathOf(geometryEncoderOptions) \notin ExistingDirectories
    THEN [c EXCEPT !.error = "outputPath"]
    ELSE LET n == Len(c.o.mInitialShapesBuilders)
             invoked == [c EXCEPT !.engineCalls = 1, !.handedEnc = raw.allEnc,
                                  !.handedOpt = raw.allEncOpt]
         IN  CASE env.gen = "throw" ->
                    [invoked EXCEPT !.outcome = "threw", !.genStat = "exception"]
               [] env.gen = "fail" ->
                    [invoked EXCEPT !.error = "generate", !.genStat = "STATUS_GENERATE_ERROR"]
               [] OTHER -> [invoked EXCEPT !.genStat = "STATUS_OK",
                                           !.result = Drain(n, PyCallbacks(n))]

\* a file-encoder branch that writes to the working directory when the options
\* of the call name no output path
FileBranchDefaultDirectory(c, raw, geometryEncoderOptions, env) ==
    IF HasOutputPath(geometryEncoderOptions)
       /\ OutputPathOf(geometryEncoderOptions) \notin ExistingDirectories
    THEN [c EXCEPT !.error = "outputPath"]
    ELSE LET invoked == [c EXCEPT !.engineCalls = 1, !.handedEnc = raw.allEnc,
                                  !.handedOpt = raw.allEncOpt]
         IN  CASE env.gen = "throw" ->
                    [invoked EXCEPT !.outcome = "threw", !.genStat = "exception"]
               [] env.gen = "fail" ->
                    [invoked EXCEPT !.error = "generate", !.genStat = "STATUS_GENERATE_ERROR"]
               [] OTHER -> [invoked EXCEPT !.genStat = "STATUS_OK"]

\* the file-encoder branch: output path check, generate into FileOutputCallbacks
FileBranch(c, raw, geometryEncoderOptions, env) ==
    IF ~HasOutputPath(geometryEncoderOptions)
    THEN [c EXCEPT !.outcome = "threw"]
    ELSE IF OutputPathOf(geometryEncoderOptions) \notin ExistingDirectories
    THEN [c EXCEPT !.error = "outputPath"]
    ELSE LET invoked == [c EXCEPT !.engineCalls = 1, !.handedEnc = raw.allEnc,
                                  !.handedOpt = raw.allEncOpt]
         IN  CASE env.gen = "throw" ->
                    [invoked EXCEPT !.outcome = "threw", !.genStat = "exception"]
               [] env.gen = "fail" ->
                    [invoked EXCEPT !.error = "generate", !.genStat = "STATUS_GENERATE_ERROR"]
               [] OTHER -> [invoked EXCEPT !.genStat = "STATUS_OK"]

\* the same steps with the encoder set rebuilt whatever the encoder name
ShapesAndEncodersAlwaysRebuilding(c, shapeAttributes, geometryEncoderName, geometryEncoderOptions, env) ==
    LET o2 == setAndCreateInitialShape(c.o, shapeAttributes)
        o3 == [o2 EXCEPT !.mEncoderBuilder = TRUE]
        o4 == initializeEncoderData(o3, geometryEncoderName, geometryEncoderOptions)
        c4 == [c EXCEPT !.o = o4, !.attrStep = TRUE]
        raw == getRawEncoderDataPointers(o4)
    IN  IF o4.mEncodersNames[1] = ENCODER_ID_PYTHON
        THEN PythonBranch(c4, raw, env)
        ELSE FileBranch(c4, raw, geometryEncoderOptions, env)

\* from "Initial shapes" to the end of the try block
ShapesAndEncoders(c, shapeAttributes, geometryEncoderName, geometryEncoderOptions, env) ==
    LET o2 == setAndCreateInitialShape(c.o, shapeAttributes)
        o3 == [o2 EXCEPT !.mEncoderBuilder = TRUE]
        o4 == IF geometryEncoderName # ""
              THEN initializeEncoderData(o3, geometryEncoderName, geometryEncoderOptions)
              ELSE o3
        c4 == [c EXCEPT !.o = o4, !.attrStep = TRUE]
    IN  IF o4.mEncodersNames = <<>>
        THEN \* mEncodersNames[0] on an empty vector
             [c4 EXCEPT !.outcome = IF env.ub = "caught" THEN "threw" ELSE "undefined"]
        ELSE LET raw == getRawEncoderDataPointers(o4) IN
             IF o4.mEncodersNames[1] = ENCODER_ID_PYTHON
             THEN PythonBranch(c4, raw, env)
             ELSE FileBranch(c4, raw, geometryEncoderOptions, env)

\* a try block that looks at the Engine context only after the resolution
TryBlockCheckingContextLate(o, ctx, shapeAttributes, rulePackagePath, geometryEncoderName, geometryEncoderOptions, env) ==
    LET attempted == rulePackagePath # ""
        created == createResolveMap(rulePackagePath, env.resolve)
        o1 == IF attempted THEN ResetResolveMap(o, created) ELSE o
        c1 == [CallBase(o1) EXCEPT !.resolveAttempted = attempted]
    IN  IF ctx = 0
        THEN [c1 EXCEPT !.error = "prtNotInitialized"]
        ELSE IF attempted /\ ~(o1.mResolveMap # Null /\ ~created.threw /\ created.status = "STATUS_OK")
        THEN [c1 EXCEPT !.error = "resolveMap"]
        ELSE ShapesAndEncoders([c1 EXCEPT !.resolved = attempted], shapeAttributes,
                               geometryEncoderName, geometryEncoderOptions, env)

\* the body of the outer try block
TryBlock(o, ctx, shapeAttributes, rulePackagePath, geometryEncoderName, geometryEncoderOptions, env) ==
    IF ctx = 0
    THEN [CallBase(o) EXCEPT !.error = "prtNotInitialized"]
    ELSE IF rulePackagePath # ""
    THEN LET created == createResolveMap(rulePackagePath, env.resolve)
             o1 == ResetResolveMap(o, created)
             c1 == [CallBase(o1) EXCEPT !.resolveAttempted = TRUE]
         IN  IF o1.mResolveMap # Null /\ ~created.threw /\ created.status = "STATUS_OK"
             THEN ShapesAndEncoders([c1 EXCEPT !.resolved = TRUE], shapeAttributes,
                                    geometryEncoderName, geometryEncoderOptions, env)
             ELSE [c1 EXCEPT !.error = "resolveMap"]
    ELSE ShapesAndEncoders(CallBase(o), shapeAttributes, geometryEncoderName,
                           geometryEncoderOptions, env)

\* generateModel without its catch clauses
CaughtNothing(c) == c

\* catch clauses that mark the instance invalid
CaughtInvalidating(c) ==
    IF c.outcome = "threw"
    THEN [c EXCEPT !.outcome = "returned", !.error = "exception", !.result = <<>>,
                   !.o.mValid = FALSE]
    ELSE c

\* the catch clauses of generateModel
Caught(c) ==
    IF c.outcome = "threw"
    THEN [c EXCEPT !.outcome = "returned", !.error = "exception", !.result = <<>>]
    ELSE c

\* the attribute count check of generateModel: m dictionaries for n initial shapes
NotEnoughWhenEmptyOnly(m, n) == m = 0 /\ n > 0

NotEnoughAttributes(m, n) == m # 1 /\ m < n

\* generateModel resolving the rule package before it checks the instance
generateModelResolvingFirst(o, ctx, shapeAttributes, rulePackagePath, geometryEncoderName, geometryEncoderOptions, env) ==
    LET attempted == rulePackagePath # ""
        o1 == IF attempted
              THEN ResetResolveMap(o, createResolveMap(rulePackagePath, env.resolve))
              ELSE o
    IN  IF ~o.mValid
        THEN [CallBase(o1) EXCEPT !.error = "invalidInstance", !.resolveAttempted = attempted]
        ELSE IF NotEnoughAttributes(Len(shapeAttributes), Len(o.mInitialShapesBuilders))
        THEN [CallBase(o1) EXCEPT !.error = "notEnoughAttributes",
                                  !.resolveAttempted = attempted]
        ELSE Caught(TryBlock(o, ctx, shapeAttributes, rulePackagePath, geometryEncoderName,
                             geometryEncoderOptions, env))

\* ModelGenerator::generateModel
generateModel(o, ctx, shapeAttributes, rulePackagePath, geometryEncoderName, geometryEncoderOptions, env) ==
    IF ~o.mValid
    THEN [CallBase(o) EXCEPT !.error = "invalidInstance"]
    ELSE IF NotEnoughAttributes(Len(shapeAttributes), Len(o.mInitialShapesBuilders))
    THEN [CallBase(o) EXCEPT !.error = "notEnoughAttributes"]
    ELSE Caught(TryBlock(o, ctx, shapeAttributes, rulePackagePath, geometryEncoderName,
                         geometryEncoderOptions, env))

\* generateAnotherModel without the resolve map check
generateAnotherModelUnchecked(o, ctx, shapeAttributes, env) ==
    generateModel(o, ctx, shapeAttributes, "", "", NoOptions, env)

\* ModelGenerator::generateAnotherModel
generateAnotherModel(o, ctx, shapeAttributes, env) ==
    IF o.mResolveMap = Null
    THEN [CallBase(o) EXCEPT !.error = "missingResolveMap"]
    ELSE generateModel(o, ctx, shapeAttributes, "", "", NoOptions, env)

NoCall ==
    [op |-> "none", shapeAttributes |-> <<>>, rulePackagePath |-> "",
     geometryEncoderName |-> "", geometryEncoderOptions |-> {},
     outcome |-> "none", error |-> "none", result |-> <<>>,
     initialized |-> FALSE, resolveAttempted |-> FALSE, resolved |-> FALSE,
     attrStep |-> FALSE,
     engineCalls |-> 0, handedEnc |-> <<>>, handedOpt |-> <<>>, genStat |-> "notCalled",
     lateFirst |-> FALSE]

Init ==
    \E myGeo \in SeqsUpTo(InitialShapeInputs, MaxShapes) :
        LET c == Construct(myGeo) IN
        /\ prtCtx = 0
        /\ firstRejected = FirstRejected(myGeo)
        /\ shapeCount = Len(myGeo)
        /\ mValid = c.valid
        /\ mInitialShapesBuilders = c.builders
        /\ mResolveMap = Null
        /\ mEncoderBuilder = FALSE
        /\ mEncodersNames = <<>>
        /\ mEncodersOptionsPtr = <<>>
        /\ mRuleFile = DefaultRuleFile
        /\ mStartRule = DefaultStartRule
        /\ mSeed = DefaultSeed
        /\ mShapeName = DefaultShapeName
        /\ terminated = FALSE
        /\ last = NoCall
        /\ hist = [lastGoodMap |-> Null, anySuccess |-> FALSE, everSupplied |-> FALSE,
                   engineFailed |-> FALSE]
        /\ prtHist = [live |-> FALSE, answer |-> "none"]
        /\ initialShape = NoShape
        /\ collector = NoCollector
        /\ callbackLog = <<>>

\* ------------------------------------------------------------------------
\* Actions
\* ------------------------------------------------------------------------
\* `new PRTContext(...)`: an object other than the one the pointer holds now
NewPRTContext(held) == IF held = 1 THEN 2 ELSE 1

\* initializePRT resetting the pointer whether or not it holds a context
InitializePRTAnew ==
    /\ ~terminated
    /\ prtCtx' = NewPRTContext(prtCtx)
    /\ prtHist' = [live |-> TRUE, answer |-> "none"]
    /\ UNCHANGED <<firstRejected, shapeCount, mValid, mInitialShapesBuilders, mResolveMap, mEncoderBuilder,
                   mEncodersNames, mEncodersOptionsPtr, mRuleFile, mStartRule, mSeed,
                   mShapeName, terminated, last, hist>>
    /\ UNCHANGED objects

\* initializePRT
InitializePRT ==
    /\ ~terminated
    /\ prtCtx' = IF prtCtx = 0 THEN NewPRTContext(prtCtx) ELSE prtCtx
    /\ prtHist' = [live |-> TRUE, answer |-> "none"]
    /\ UNCHANGED <<firstRejected, shapeCount, mValid, mInitialShapesBuilders, mResolveMap, mEncoderBuilder,
                   mEncodersNames, mEncodersOptionsPtr, mRuleFile, mStartRule, mSeed,
                   mShapeName, terminated, last, hist>>
    /\ UNCHANGED objects

\* shutdownPRT
ShutdownPRT ==
    /\ ~terminated
    /\ prtCtx' = 0
    /\ prtHist' = [live |-> FALSE, answer |-> "none"]
    /\ UNCHANGED <<firstRejected, shapeCount, mValid, mInitialShapesBuilders, mResolveMap,
                   mEncoderBuilder, mEncodersNames, mEncodersOptionsPtr, mRuleFile,
                   mStartRule, mSeed, mShapeName, terminated, last, hist>>
    /\ UNCHANGED objects

\* isPRTInitialized
isPRTInitialized(ctx) == ctx # 0

IsPRTInitialized ==
    /\ ~terminated
    /\ prtHist' = [prtHist EXCEPT !.answer = IF isPRTInitialized(prtCtx) THEN "true" ELSE "false"]
    /\ UNCHANGED <<prtCtx, firstRejected, shapeCount, mValid, mInitialShapesBuilders, mResolveMap,
                   mEncoderBuilder, mEncodersNames, mEncodersOptionsPtr, mRuleFile,
                   mStartRule, mSeed, mShapeName, terminated, last, hist>>
    /\ UNCHANGED objects

\* the history after a call c: the resolve map of the last successful resolution,
\* has a generate call succeeded (the Engine returned STATUS_OK), has a shape been
\* given a dictionary that supplies the main keys, has prt::generate returned a
\* failure status or thrown
HistoryAfter(c) ==
    [lastGoodMap |-> IF c.resolved THEN c.o.mResolveMap ELSE hist.lastGoodMap,
     anySuccess |-> hist.anySuccess \/ c.genStat = "STATUS_OK",
     everSupplied |-> hist.everSupplied
                      \/ (c.attrStep /\ \E i \in DOMAIN c.o.mInitialShapesBuilders :
                             c.o.mInitialShapesBuilders[i].attrs = FullDict.id),
     engineFailed |-> hist.engineFailed
                      \/ c.genStat \in {"STATUS_GENERATE_ERROR", "exception"}]

\* the state after a call c made as operation op with the given arguments;
\* history: whether the specification keeps the history variable
Called(op, shapeAttributes, rulePackagePath, geometryEncoderName, geometryEncoderOptions, c, history) ==
    /\ mValid' = c.o.mValid
    /\ mInitialShapesBuilders' = c.o.mInitialShapesBuilders
    /\ mResolveMap' = c.o.mResolveMap
    /\ mEncoderBuilder' = c.o.mEncoderBuilder
    /\ mEncodersNames' = c.o.mEncodersNames
    /\ mEncodersOptionsPtr' = c.o.mEncodersOptionsPtr
    /\ mRuleFile' = c.o.mRuleFile
    /\ mStartRule' = c.o.mStartRule
    /\ mSeed' = c.o.mSeed
    /\ mShapeName' = c.o.mShapeName
    /\ terminated' = (c.outcome = "undefined")
    /\ last' = [op |-> op, shapeAttributes |-> shapeAttributes,
                rulePackagePath |-> rulePackagePath,
                geometryEncoderName |-> geometryEncoderName,
                geometryEncoderOptions |-> geometryEncoderOptions,
                outcome |-> c.outcome, error |-> c.error, result |-> c.result,
                initialized |-> prtCtx # 0,
                resolveAttempted |-> c.resolveAttempted, resolved |-> c.resolved,
                attrStep |-> c.attrStep,
                engineCalls |-> c.engineCalls, handedEnc |-> c.handedEnc,
                handedOpt |-> c.handedOpt, genStat |-> c.genStat,
                lateFirst |-> c.lateFirst]
    /\ hist' = IF history THEN HistoryAfter(c) ELSE hist
    /\ UNCHANGED <<prtCtx, firstRejected, shapeCount, prtHist>>
    /\ UNCHANGED objects

\* The Engine's part in a call: createResolveMap's behaviour if the call attempts a
\* resolution, generate's behaviour if the call invokes it, and the callbacks it
\* makes if it runs to STATUS_OK with the PyCallbacks sink; and the outcome of
\* undefined behaviour if the call runs into it.  Whether the call gets that far is
\* read off the same call made with a well-behaved, silent Engine (probe).
WellBehaved == [resolve |-> "ok", gen |-> "ok", cbs |-> <<>>, ub |-> "terminate"]

EngineResolveBehaviours(probe) ==
    IF probe.resolveAttempted THEN EngineOutcomes ELSE {"ok"}

EngineGenerateBehaviours(probe, resolve) ==
    IF resolve = "ok" /\ probe.engineCalls = 1 THEN EngineOutcomes ELSE {"ok"}

UndefinedBehaviours(probe, resolve) ==
    IF resolve = "ok" /\ probe.outcome = "undefined" THEN UndefinedOutcomes ELSE {"terminate"}

EngineCallbackBehaviours(probe, resolve, gen, maxCallbacks) ==
    IF resolve = "ok" /\ gen = "ok" /\ probe.engineCalls = 1
       /\ probe.handedEnc[1] = ENCODER_ID_PYTHON
    THEN SeqsUpTo(EngineCallbacks(Len(probe.o.mInitialShapesBuilders)), maxCallbacks)
    ELSE {<<>>}

\* generate_model(shapeAttributes, rulePackagePath, geometryEncoderName, geometryEncoderOptions)
\* with the caller's arguments drawn from the given sets: lists of attribute
\* dictionaries, rule package paths, <<encoder name, encoder options>> pairs
GenerateModelOver(AttributeLists, Paths, Selections, maxCallbacks, history) ==
    /\ ~terminated
    /\ \E shapeAttributes \in AttributeLists, rulePackagePath \in Paths, enc \in Selections :
            LET Call(env) == generateModel(Self, prtCtx, shapeAttributes, rulePackagePath,
                                           enc[1], enc[2], env)
            IN  \E probe \in {Call(WellBehaved)} :
                \E resolve \in EngineResolveBehaviours(probe) :
                \E gen \in EngineGenerateBehaviours(probe, resolve) :
                \E cbs \in EngineCallbackBehaviours(probe, resolve, gen, maxCallbacks) :
                \E ub \in UndefinedBehaviours(probe, resolve) :
                \E c \in {Call([resolve |-> resolve, gen |-> gen, cbs |-> cbs, ub |-> ub])} :
                    Called("generateModel", shapeAttributes, rulePackagePath, enc[1], enc[2],
                           c, history)

\* generate_model(shapeAttributes)
GenerateAnotherModelOver(AttributeLists, maxCallbacks, history) ==
    /\ ~terminated
    /\ \E shapeAttributes \in AttributeLists :
            LET Call(env) == generateAnotherModel(Self, prtCtx, shapeAttributes, env)
            IN  \E probe \in {Call(WellBehaved)} :
                \E resolve \in EngineResolveBehaviours(probe) :
                \E gen \in EngineGenerateBehaviours(probe, resolve) :
                \E cbs \in EngineCallbackBehaviours(probe, resolve, gen, maxCallbacks) :
                \E ub \in UndefinedBehaviours(probe, resolve) :
                \E c \in {Call([resolve |-> resolve, gen |-> gen, cbs |-> cbs, ub |-> ub])} :
                    Called("generateAnotherModel", shapeAttributes, "", "", NoOptions,
                           c, history)

\* ------------------------------------------------------------------------
\* InitialShape construction
\* ------------------------------------------------------------------------
Coordinates == {0, 1}

\* InitialShape(vert) for a flat coordinate list of any length up to MaxVertices
NewInitialShapeFromVertices ==
    /\ \E vert \in SeqsUpTo(Coordinates, MaxVertices) :
            initialShape' = [ctor |-> "vertices", obj |-> InitialShapeFromVertices(vert)]
    /\ UNCHANGED <<orchestrator, collector, callbackLog>>

\* InitialShape(vert, ind, faceCnt): whatever the caller passes is stored
NewInitialShapeFromGeometry ==
    /\ \E vert \in {<<>>, <<0, 0, 0, 0, 0, 1, 1, 0, 1>>},
          ind \in {<<>>, <<0, 1, 2>>, <<2, 1, 0>>},
          faceCnt \in {<<>>, <<3>>, <<4>>} :
            initialShape' = [ctor |-> "geometry", obj |-> InitialShapeFromGeometry(vert, ind, faceCnt)]
    /\ UNCHANGED <<orchestrator, collector, callbackLog>>

\* InitialShape(initShapePath)
NewInitialShapeFromPath ==
    /\ \E initShapePath \in {"", "shape.obj"} :
            initialShape' = [ctor |-> "path", obj |-> InitialShapeFromPath(initShapePath)]
    /\ UNCHANGED <<orchestrator, collector, callbackLog>>

\* ------------------------------------------------------------------------
\* The collector as an object of its own: created for the orchestrator's
\* shapes, then written to by the Engine one callback at a time.
\* ------------------------------------------------------------------------
CollectorGeometries ==
    { [vertices |-> <<0, 0, 0, 0, 0, 1, 1, 0, 1>>, faces |-> << <<0, 1, 2>> >>],
      [vertices |-> <<0, 0, 0, 0, 0, 1, 1, 0, 1, 1, 0, 0>>,
       faces |-> << <<0, 1, 2, 3>>, <<3, 1>> >>] }

CollectorReports ==
    { [flt |-> ("area" :> 2), str |-> ("kind" :> "roof"), bool |-> EmptyMap],
      [flt |-> ("area" :> 5) @@ ("height" :> 3), str |-> EmptyMap, bool |-> ("flat" :> TRUE)],
      [flt |-> EmptyMap, str |-> ("kind" :> "wall"), bool |-> ("flat" :> FALSE)] }

\* std::make_unique<PyCallbacks>(mInitialShapesBuilders.size())
NewPyCallbacks ==
    /\ collector' = PyCallbacks(Len(mInitialShapesBuilders))
    /\ callbackLog' = <<>>
    /\ UNCHANGED <<orchestrator, initialShape>>

\* the collector after callback ev, the callback logged
Received(ev) ==
    /\ collector # NoCollector
    /\ ev.idx \in DOMAIN collector
    /\ Len(callbackLog) < MaxCallbacks
    /\ collector' = ApplyCallback(collector, ev)
    /\ callbackLog' = Append(callbackLog, ev)
    /\ UNCHANGED <<orchestrator, initialShape>>

AddGeometry ==
    \E i \in DOMAIN collector, g \in CollectorGeometries :
        Received([cb |-> "addGeometry", idx |-> i, vertices |-> g.vertices, faces |-> g.faces,
                  flt |-> EmptyMap, str |-> EmptyMap, bool |-> EmptyMap])

AddReports ==
    \E i \in DOMAIN collector, r \in CollectorReports :
        Received([cb |-> "addReports", idx |-> i, vertices |-> <<>>, faces |-> <<>>,
                  flt |-> r.flt, str |-> r.str, bool |-> r.bool])

AddIndex ==
    \E i \in DOMAIN collector :
        Received([cb |-> "addIndex", idx |-> i, vertices |-> <<>>, faces |-> <<>>,
                  flt |-> EmptyMap, str |-> EmptyMap, bool |-> EmptyMap])

\* ------------------------------------------------------------------------
\* Specifications.  Each lets the caller and the Engine vary in the
\* dimension its properties are about and keeps the others at one value.
\* ------------------------------------------------------------------------
\* the (encoder name, encoder options) pairs callers pass
EncoderSelections ==
    {<<ENCODER_ID_PYTHON, NoOptions>>}
    \cup {<<name, opt>> : name \in {"", ENCODER_ID_OBJ}, opt \in EncoderOptionDicts}

\* attribute lists of every length whose dictionaries all omit the main keys
PlainAttributeLists == SeqsUpTo({EmptyDict}, MaxAttrSets)

\* Spec: the control flow of the calls.  Any number of attribute sets, any rule
\* package path, any encoder selection, any Engine status; the Engine makes no
\* callback and no history is kept.
GenerateModel ==
    GenerateModelOver(PlainAttributeLists, RulePackagePaths, EncoderSelections, 0, FALSE)

GenerateAnotherModel == GenerateAnotherModelOver(PlainAttributeLists, 0, FALSE)

Next ==
    \/ InitializePRT
    \/ ShutdownPRT
    \/ GenerateModel
    \/ GenerateAnotherModel

Spec == Init /\ [][Next]_vars

\* SpecResolve: rule package resolution over a sequence of calls, with history.
\* The encoder is the Python encoder, given or reused.
ResolveSelections == {<<ENCODER_ID_PYTHON, NoOptions>>, <<"", NoOptions>>}

GenerateModelResolving ==
    GenerateModelOver(PlainAttributeLists, RulePackagePaths, ResolveSelections, 0, TRUE)

GenerateAnotherModelResolving == GenerateAnotherModelOver(PlainAttributeLists, 0, TRUE)

NextResolve ==
    \/ InitializePRT
    \/ ShutdownPRT
    \/ GenerateModelResolving
    \/ GenerateAnotherModelResolving

SpecResolve == Init /\ [][NextResolve]_vars

\* SpecAttributes: the shape attribute dictionaries, with history.  Dictionaries
\* that supply or omit the main keys, in lists of every length; Python encoder.
AttributeLists == SeqsUpTo(ShapeAttributeDicts, MaxAttrSets)

GenerateModelWithAttributes ==
    GenerateModelOver(AttributeLists, {""}, {<<ENCODER_ID_PYTHON, NoOptions>>}, 0, TRUE)

NextAttributes ==
    \/ InitializePRT
    \/ ShutdownPRT
    \/ GenerateModelWithAttributes

SpecAttributes == Init /\ [][NextAttributes]_vars

\* SpecCallbacks: the Engine's callbacks and the drained result.  One attribute
\* dictionary for all shapes, Python encoder, up to MaxCallbacks callbacks a call.
GenerateModelWithCallbacks ==
    GenerateModelOver({<<EmptyDict>>}, {""}, {<<ENCODER_ID_PYTHON, NoOptions>>},
                      MaxCallbacks, FALSE)

NextCallbacks ==
    \/ InitializePRT
    \/ ShutdownPRT
    \/ GenerateModelWithCallbacks

SpecCallbacks == Init /\ [][NextCallbacks]_vars

\* SpecEngine: the life cycle of the Engine context, with generate calls made
\* while it is and while it is not initialised.
GenerateModelPlain ==
    GenerateModelOver(PlainAttributeLists, RulePackagePaths, {<<ENCODER_ID_PYTHON, NoOptions>>},
                      0, FALSE)

NextEngine ==
    \/ InitializePRT
    \/ ShutdownPRT
    \/ IsPRTInitialized
    \/ GenerateModelPlain
    \/ GenerateAnotherModel

SpecEngine == Init /\ [][NextEngine]_vars

\* SpecShape: the constructors of InitialShape.
NextShape ==
    \/ NewInitialShapeFromVertices
    \/ NewInitialShapeFromGeometry
    \/ NewInitialShapeFromPath

SpecShape == Init /\ [][NextShape]_vars

\* SpecCollector: the callbacks of the Engine on one collector.
NextCollector ==
    \/ NewPyCallbacks
    \/ AddGeometry
    \/ AddReports
    \/ AddIndex

SpecCollector == Init /\ [][NextCollector]_vars

\* ------------------------------------------------------------------------
\* Properties
\* ------------------------------------------------------------------------
NumShapes == Len(mInitialShapesBuilders)
NumAttrSets == Len(last.shapeAttributes)
CallMade == last.op # "none"
ReturnedEmpty == last.outcome = "returned" /\ last.result = <<>>
EngineNotInvoked == last.engineCalls = 0
PythonEncoderSelected == mEncodersNames # <<>> /\ mEncodersNames[1] = ENCODER_ID_PYTHON
FileEncoderSelected == mEncodersNames # <<>> /\ mEncodersNames[1] # ENCODER_ID_PYTHON
\* the last call named a file encoder, or named none and reused a file encoder set
FileEncoderCall ==
    \/ last.geometryEncoderName \notin {"", ENCODER_ID_PYTHON}
    \/ last.geometryEncoderName = "" /\ FileEncoderSelected

\* C1: a generate call on a valid orchestrator of N shapes, with the Python
\* encoder selected and the Engine returning STATUS_OK, returns exactly N models,
\* the k-th of them (from 0) with initial shape index k, whatever callbacks the
\* Engine made and in whatever order.
C1_ResultInInputOrder ==
    (CallMade /\ mValid /\ PythonEncoderSelected /\ last.genStat = "STATUS_OK")
        => /\ last.outcome = "returned"
           /\ Len(last.result) = NumShapes
           /\ \A k \in 1..NumShapes : last.result[k].mInitialShapeIndex = k - 1

\* three shapes; the Engine reported the geometry of the last shape before it
\* reported on the first shape, and no geometry for the first two
C1_Witness ==
    /\ CallMade /\ mValid /\ PythonEncoderSelected /\ last.genStat = "STATUS_OK"
    /\ NumShapes = 3
    /\ last.lateFirst
    /\ last.result[1].mVertices = <<>> /\ DOMAIN last.result[1].mReport.flt # {}
    /\ last.result[2].mVertices = <<>> /\ DOMAIN last.result[2].mReport.flt = {}
    /\ last.result[3].mVertices # <<>>

\* C2: if the constructor rejected a shape the instance is invalid in every
\* state, and every generate call, through either overload, returns an empty
\* sequence without invoking the Engine.
C2_InvalidStaysInvalid ==
    firstRejected # -1
        => /\ ~mValid
           /\ CallMade => (ReturnedEmpty /\ EngineNotInvoked /\ ~last.resolveAttempted)

\* an invalid instance, a four-argument call whose arguments would otherwise pass
C2_Witness ==
    /\ firstRejected # -1
    /\ last.op = "generateModel"
    /\ prtCtx # 0
    /\ NumAttrSets = 1
    /\ last.rulePackagePath # ""
    /\ last.geometryEncoderName = ENCODER_ID_PYTHON
    /\ last.error = "invalidInstance"

\* C3: a call with M attribute sets for N initial shapes, M # 1 and M < N,
\* returns an empty sequence and does not invoke the Engine.
C3_TooFewAttributeSets ==
    (CallMade /\ NumAttrSets # 1 /\ NumAttrSets < NumShapes)
        => (ReturnedEmpty /\ EngineNotInvoked)

\* 1 < M < N on a valid instance with the Engine initialised
C3_Witness ==
    /\ last.op = "generateModel" /\ mValid /\ prtCtx # 0
    /\ NumAttrSets = 2 /\ NumShapes = 3
    /\ last.geometryEncoderName = ENCODER_ID_PYTHON
    /\ last.error = "notEnoughAttributes"

\* C4: in a call that reaches the attribute step with M sets for N shapes, the
\* set attached to shape i (from 0) is set i when i < M and set 0 otherwise.
C4_AttributeSetOfShape ==
    (CallMade /\ last.attrStep)
        => \A i \in 1..NumShapes :
              /\ mInitialShapesBuilders[i].attrSet
              /\ mInitialShapesBuilders[i].attrs =
                    (IF i <= NumAttrSets THEN last.shapeAttributes[i]
                     ELSE last.shapeAttributes[1]).id

\* two shapes, two different sets
C4_Witness ==
    /\ CallMade /\ last.attrStep
    /\ NumShapes = 2 /\ NumAttrSets = 2
    /\ last.shapeAttributes[1] = EmptyDict /\ last.shapeAttributes[2] = FullDict
    /\ mInitialShapesBuilders[2].ruleFile = FullDict.str.ruleFile

FailsForMissingResolveMap ==
    last.error = "missingResolveMap" /\ ReturnedEmpty /\ EngineNotInvoked

C6_KeepsLastGoodMap ==
    (CallMade /\ last.resolveAttempted /\ last.error = "resolveMap"
     /\ hist.lastGoodMap # Null)
        => mResolveMap = hist.lastGoodMap

C8_EncoderLists ==
    /\ Len(mEncodersNames) = Len(mEncodersOptionsPtr)
    /\ Len(mEncodersNames) \in {0, 1, 3}
    /\ (Len(mEncodersNames) = 1) <=> PythonEncoderSelected
    /\ Len(mEncodersNames) = 3
          => /\ mEncodersNames[2] = ENCODER_ID_CGA_REPORT
             /\ mEncodersNames[3] = ENCODER_ID_CGA_PRINT
    /\ \A k \in DOMAIN mEncodersOptionsPtr :
          mEncodersOptionsPtr[k].encoder = mEncodersNames[k]
    /\ last.engineCalls = 1
          => (last.handedEnc = mEncodersNames /\ last.handedOpt = mEncodersOptionsPtr)

\* a file encoder set built by an earlier call is handed to the Engine by a call
\* with an empty encoder name
C8_Witness ==
    /\ Len(mEncodersNames) = 3
    /\ last.engineCalls = 1
    /\ last.geometryEncoderName = ""
    /\ last.handedEnc[1] = ENCODER_ID_OBJ

\* C9: a generate call with an empty encoder name on an orchestrator with no
\* encoder set returns an empty sequence and does not invoke the Engine.
C9_EmptyNameWithoutEncoderSetFails ==
    (CallMade /\ last.geometryEncoderName = "" /\ mEncodersNames = <<>>)
        => (ReturnedEmpty /\ EngineNotInvoked)

\* C10: with a file encoder selected and encoder options that lack outputPath
\* or name no existing directory, the call returns an empty sequence, does not
\* invoke the Engine and lets no exception escape.
C10_InvalidOutputPath ==
    (/\ CallMade /\ FileEncoderCall
     /\ \/ ~HasOutputPath(last.geometryEncoderOptions)
        \/ OutputPathOf(last.geometryEncoderOptions) \notin ExistingDirectories)
        => (ReturnedEmpty /\ EngineNotInvoked)

\* the call got as far as the lookup of the missing outputPath key
C10_Witness ==
    /\ CallMade /\ FileEncoderSelected /\ last.attrStep
    /\ ~HasOutputPath(last.geometryEncoderOptions)
    /\ last.error = "exception"

\* the preconditions of the last call that the four-argument overload checks
ListedPreconditionsPass ==
    /\ mValid
    /\ ~NotEnoughAttributes(NumAttrSets, NumShapes)
    /\ last.initialized
    /\ last.rulePackagePath # "" => last.resolved
    /\ last.geometryEncoderName # "" \/ mEncodersNames # <<>>
    /\ FileEncoderCall => /\ HasOutputPath(last.geometryEncoderOptions)
                          /\ OutputPathOf(last.geometryEncoderOptions) \in ExistingDirectories

\* C11 as stated: a call invokes the Engine's generation entry point at most
\* once, and exactly once when the instance is valid, the attribute sets are
\* enough, the Engine is initialised, the resolution (if any) succeeded, an
\* encoder set exists and the output directory of a file encoder is valid.
C11_OncePerCall ==
    CallMade => /\ last.engineCalls <= 1
                /\ ListedPreconditionsPass => last.engineCalls = 1

\* C11, amended: as above, with the one-argument overload also requiring that
\* the orchestrator holds a resolve map; a failed Engine call is not retried.
C11_OncePerCallWithResolveMap ==
    CallMade => /\ last.engineCalls <= 1
                /\ (/\ ListedPreconditionsPass
                    /\ last.op = "generateAnotherModel" => mResolveMap # Null)
                      => last.engineCalls = 1
                /\ last.genStat \in {"STATUS_GENERATE_ERROR", "exception"}
                      => last.engineCalls = 1

\* the one-argument overload, every precondition passing, the Engine failing
C11_Witness ==
    /\ last.op = "generateAnotherModel"
    /\ ListedPreconditionsPass /\ mResolveMap # Null
    /\ last.genStat = "STATUS_GENERATE_ERROR"
    /\ last.engineCalls = 1

\* the errors of a call that fails on validation, on the output path or in the
\* Engine's generation
LocalFailures ==
    {"invalidInstance", "notEnoughAttributes", "prtNotInitialized", "missingResolveMap",
     "outputPath", "generate"}

\* C12: a generate call that returns empty because of a validation error, an
\* output-path error or an Engine generation error leaves the encoder name
\* list, the encoder option list and the resolve map as they were before it.
C12_FailedCallLeavesState ==
    [][(last'.error \in LocalFailures)
          => /\ mEncodersNames' = mEncodersNames
             /\ mEncodersOptionsPtr' = mEncodersOptionsPtr
             /\ mResolveMap' = mResolveMap]_vars

EngineFailures == {"STATUS_GENERATE_ERROR", "exception"}

\* C13: a call in which prt::generate returns a failure status, or in which an
\* exception is raised, returns an empty sequence; the validity flag stays
\* what the constructor made it; and a call after such a failure on which the
\* Engine returns STATUS_OK with the Python encoder yields one model per shape.
C13_EngineFailureIsLocal ==
    /\ mValid = (firstRejected = -1)
    /\ (last.genStat \in EngineFailures \/ last.error = "exception") => ReturnedEmpty
    /\ (hist.engineFailed /\ last.genStat = "STATUS_OK" /\ PythonEncoderSelected)
          => /\ last.outcome = "returned"
             /\ Len(last.result) = NumShapes
             /\ \A k \in 1..NumShapes : last.result[k].mInitialShapeIndex = k - 1

\* an earlier call failed in the Engine, the last one returned both models
C13_Witness ==
    /\ hist.engineFailed /\ mValid
    /\ last.genStat = "STATUS_OK" /\ PythonEncoderSelected
    /\ NumShapes = 2 /\ Len(last.result) = 2

\* C14: a call returns a non-empty sequence only if the instance is valid, the
\* Engine was initialised, the encoder set starts with the Python encoder and
\* prt::generate returned STATUS_OK; with a file encoder set the result is
\* empty whatever prt::generate returned.
C14_NonEmptyOnlyFromPythonEncoder ==
    /\ last.result # <<>>
          => /\ mValid /\ last.initialized
             /\ PythonEncoderSelected
             /\ last.genStat = "STATUS_OK" /\ last.engineCalls = 1
    /\ (CallMade /\ FileEncoderCall) => last.result = <<>>

\* a file encoder, a valid output directory, the Engine returning STATUS_OK for
\* two shapes
C14_Witness ==
    /\ CallMade /\ mValid /\ NumShapes = 2
    /\ FileEncoderSelected /\ last.engineCalls = 1 /\ last.genStat = "STATUS_OK"
    /\ last.outcome = "returned" /\ last.result = <<>>

\* C15: an InitialShape built from a flat vertex list of length L has the
\* indices 0, 1, ..., N-1 with N = floor(L / 3) and exactly one face count,
\* equal to N, for every L.
C15_SinglePolygonFromVertices ==
    initialShape.ctor = "vertices"
        => LET L == Len(initialShape.obj.mVertices)
               N == Len(initialShape.obj.mIndices)
           IN  /\ 3 * N <= L /\ L < 3 * (N + 1)
               /\ \A i \in 1..N : initialShape.obj.mIndices[i] = i - 1
               /\ Len(initialShape.obj.mFaceCounts) = 1
               /\ initialShape.obj.mFaceCounts[1] = N
               /\ ~initialShape.obj.mPathFlag

\* seven coordinates: two vertices, one coordinate left over
C15_Witness ==
    /\ initialShape.ctor = "vertices"
    /\ Len(initialShape.obj.mVertices) = 7
    /\ initialShape.obj.mIndices = <<0, 1>>
    /\ initialShape.obj.mFaceCounts = <<2>>

\* the positions of the log at which callback cb was made for shape index i
LogPositions(cb, i) ==
    {p \in DOMAIN callbackLog : callbackLog[p].cb = cb /\ callbackLog[p].idx = i}

Latest(positions) == CHOOSE p \in positions : \A q \in positions : q <= p

\* the accumulated map is what the addReports callbacks at the given positions
\* gave: every key of any of them, each with the value of the last that had it
LastWriteWins(accumulated, given, positions) ==
    /\ DOMAIN accumulated = UNION {DOMAIN given[p] : p \in positions}
    /\ \A k \in DOMAIN accumulated :
          accumulated[k] = given[Latest({p \in positions : k \in DOMAIN given[p]})][k]

\* C16: after any sequence of callbacks, the report accumulated for a shape
\* index holds every key given by an addReports callback for that index, with
\* the value of the last such callback that contained the key; callbacks for
\* other indices have no part in it.
C16_ReportLastWriteWins ==
    \A i \in DOMAIN collector :
        LET positions == LogPositions("addReports", i)
        IN  /\ LastWriteWins(collector[i].report.flt,
                             [p \in positions |-> callbackLog[p].flt], positions)
            /\ LastWriteWins(collector[i].report.str,
                             [p \in positions |-> callbackLog[p].str], positions)
            /\ LastWriteWins(collector[i].report.bool,
                             [p \in positions |-> callbackLog[p].bool], positions)

\* two addReports for shape 0: the second overwrites "area", "kind" of the
\* first is kept; shape 1 has no report
C16_Witness ==
    /\ collector # NoCollector /\ DOMAIN collector = {0, 1}
    /\ Len(callbackLog) = 2
    /\ LogPositions("addReports", 0) = {1, 2}
    /\ callbackLog[1].flt["area"] = 2
    /\ collector[0].report.flt["area"] = 5
    /\ collector[0].report.flt["height"] = 3
    /\ collector[0].report.str["kind"] = "roof"
    /\ DOMAIN collector[1].report.flt = {}

RECURSIVE SumOfLengths(_, _)
SumOfLengths(groups, upTo) ==
    IF upTo = 0 THEN 0 ELSE Len(groups[upTo]) + SumOfLengths(groups, upTo - 1)

\* C17: the geometry stored for a shape index is that of the last addGeometry
\* callback for the index: its vertices, its face groups concatenated in face
\* order with each group's order kept, and the length of each group in the
\* same order; with no such callback the geometry is empty.
C17_GeometryFlattened ==
    \A i \in DOMAIN collector :
        LET positions == LogPositions("addGeometry", i)
            m == collector[i]
        IN  IF positions = {}
            THEN m.vertices = <<>> /\ m.indices = <<>> /\ m.faces = <<>>
            ELSE LET g == callbackLog[Latest(positions)]
                 IN  /\ m.vertices = g.vertices
                     /\ Len(m.faces) = Len(g.faces)
                     /\ \A f \in DOMAIN g.faces : m.faces[f] = Len(g.faces[f])
                     /\ Len(m.indices) = SumOfLengths(g.faces, Len(g.faces))
                     /\ \A f \in DOMAIN g.faces : \A q \in DOMAIN g.faces[f] :
                           m.indices[SumOfLengths(g.faces, f - 1) + q] = g.faces[f][q]

\* shape 0 got a one-face geometry and then a two-face geometry, shape 1 none
C17_Witness ==
    /\ collector # NoCollector /\ DOMAIN collector = {0, 1}
    /\ LogPositions("addGeometry", 0) = {1, 2}
    /\ Len(callbackLog[1].faces) = 1
    /\ collector[0].indices = <<0, 1, 2, 3, 3, 1>>
    /\ collector[0].faces = <<4, 2>>
    /\ Len(collector[0].vertices) = 12
    /\ collector[1].vertices = <<>>

\* C18: the four-argument call checks the instance's validity first and the
\* number of attribute sets second, both before any resolution: a call with
\* an invalid instance is rejected for that, a call with too few attribute
\* sets on a valid instance for that, and a call rejected for either attempts
\* no resolution, does not invoke the Engine and leaves the resolve map and
\* the encoder lists as they were.
C18_ValidationBeforeResolution ==
    [][/\ (last'.op = "generateModel" /\ ~mValid) => last'.error = "invalidInstance"
       /\ (/\ last'.op = "generateModel" /\ mValid
           /\ NotEnoughAttributes(Len(last'.shapeAttributes), Len(mInitialShapesBuilders)))
             => last'.error = "notEnoughAttributes"
       /\ last'.error \in {"invalidInstance", "notEnoughAttributes"}
             => /\ ~last'.resolveAttempted /\ last'.engineCalls = 0
                /\ mResolveMap' = mResolveMap
                /\ mEncodersNames' = mEncodersNames
                /\ mEncodersOptionsPtr' = mEncodersOptionsPtr]_vars

\* a call naming a rule package and a file encoder is rejected for its attribute
\* sets; the orchestrator still has the Python encoder set and no resolve map
C18_Witness ==
    /\ last.op = "generateModel" /\ last.error = "notEnoughAttributes"
    /\ last.initialized
    /\ last.rulePackagePath # "" /\ last.geometryEncoderName = ENCODER_ID_OBJ
    /\ mEncodersNames = <<ENCODER_ID_PYTHON>>
    /\ mResolveMap = Null

\* the encoder lists initializeEncoderData is to build for a name and options
ExpectedEncoders(name) ==
    IF name = ENCODER_ID_PYTHON THEN <<name>>
    ELSE <<name, ENCODER_ID_CGA_REPORT, ENCODER_ID_CGA_PRINT>>

C20_EngineLifeCycle ==
    /\ [](/\ prtHist.live <=> prtCtx # 0
          /\ prtHist.answer # "none" => (prtHist.answer = "true" <=> prtHist.live))
    /\ [][/\ (prtCtx # 0 /\ prtCtx' # 0) => prtCtx' = prtCtx
          /\ (prtCtx = 0 /\ prtCtx' # 0) => (~prtHist.live /\ prtHist'.live)]_vars

\* asked after a shutdown_prt that followed a generate call made while the
\* Engine was initialised: the answer is false
C20_Witness ==
    /\ last.op # "none" /\ last.initialized
    /\ prtCtx = 0
    /\ ~prtHist.live /\ prtHist.answer = "false"

\* C21: a generate call made while the Engine is not initialised, on a valid
\* instance and with enough attribute sets, returns an empty sequence, attempts
\* no resolution, does not invoke prt::generate, and leaves the resolve map and
\* the encoder lists as they were; the four-argument call is rejected for the
\* missing Engine context.
C21_NotInitialized ==
    [][(/\ last'.op # "none" /\ ~last'.initialized
        /\ mValid
        /\ ~NotEnoughAttributes(Len(last'.shapeAttributes), Len(mInitialShapesBuilders)))
          => /\ last'.outcome = "returned" /\ last'.result = <<>>
             /\ last'.op = "generateModel" => last'.error = "prtNotInitialized"
             /\ ~last'.resolveAttempted /\ ~last'.attrStep
             /\ last'.engineCalls = 0
             /\ mResolveMap' = mResolveMap
             /\ mEncodersNames' = mEncodersNames
             /\ mEncodersOptionsPtr' = mEncodersOptionsPtr]_vars

\* a call naming a rule package, made after a shutdown_prt that followed a
\* successful call: the resolve map and the encoder set of that call remain
C21_Witness ==
    /\ last.op = "generateModel" /\ ~last.initialized
    /\ last.error = "prtNotInitialized"
    /\ last.rulePackagePath # ""
    /\ mValid /\ mResolveMap # Null
    /\ mEncodersNames = <<ENCODER_ID_PYTHON>>
    /\ ~prtHist.live

C23_BuilderSlots ==
    /\ Len(mInitialShapesBuilders) = shapeCount
    /\ mValid <=> firstRejected = -1
    /\ mValid => \A i \in 1..shapeCount : mInitialShapesBuilders[i].isb
    /\ firstRejected # -1
          => \A i \in (firstRejected + 1)..shapeCount : ~mInitialShapesBuilders[i].isb
    /\ last.attrStep => \A i \in 1..shapeCount : mInitialShapesBuilders[i].isb

\* three shapes, the second rejected: one builder, two empty slots, and a call
\* that was turned away
C23_Witness ==
    /\ shapeCount = 3 /\ firstRejected = 1
    /\ mInitialShapesBuilders[1].isb
    /\ ~mInitialShapesBuilders[2].isb /\ ~mInitialShapesBuilders[3].isb
    /\ last.op = "generateModel" /\ ~last.attrStep

====
